---- MODULE Spec2Model ----
(***************************************************************************)
(* A model of easyapi/calc.py: the aggregation planner (get_results,       *)
(* group_by, aggregate), the period filter (get_period, get_dates), the    *)
(* metric expression builder and the result reshaper (normalize_groups).   *)
(*                                                                         *)
(* Python values are pairs <<type, repr>> where repr is the text str()     *)
(* gives for the value: <<"str", "A">>, <<"int", "0">>, <<"none", "None">>,*)
(* <<"bool", "False">>, <<"num", "5">>.  A Python dict is a function from  *)
(* its keys; an optional value is a sequence of length 0 or 1.             *)
(***************************************************************************)
EXTENDS Integers, Sequences, FiniteSets, TLC

VARIABLES
    data,       \* the caller's request object (get_results' argument `data`)
    args,       \* the request as it was when the running call started
    model,      \* the data-source view: the chain of calls applied to model.objects
    groups,     \* get_results' local `groups` once group_by returned
    results,    \* the rows read from the data source
    response,   \* what get_results returned
    error,      \* the exception get_results raised, "" when none
    pc,         \* position of the request pipeline
    calls,      \* how many times the request object was processed
    reshaper,   \* normalize_groups: its arguments and its return value
    builder,    \* the expression builder: metric field, a row, the expression
    resolver    \* get_period: the period filter and its return value

vars == <<data, args, model, groups, results, response, error, pc, calls,
          reshaper, builder, resolver>>

(***************************************************************************)
(* Bounds of the model.                                                    *)
(***************************************************************************)
MaxRows == 2
MaxFetched == 2
MaxCalls == 2
MaxOperators == 2

\* no request is being processed (the specifications of the parts)
IdlePipeline ==
    /\ data = <<>> /\ args = <<>> /\ model = <<>> /\ groups = <<>>
    /\ results = <<>> /\ response = <<>> /\ error = "" /\ pc = "off"
    /\ calls = 0

(***************************************************************************)
(* Python values and dicts.                                                *)
(***************************************************************************)
None == <<"none", "None">>
S(s) == <<"str", s>>
Num(s) == <<"num", s>>

\* str(v)
Str(v) == v[2]

\* bool(v): the empty string, None, zero and False are falsy
Truthy(v) == v \notin {S(""), None, <<"int", "0">>, <<"bool", "False">>}

EmptyDict == [k \in {} |-> None]
DictSet(d, k, v) == [kk \in DOMAIN d \cup {k} |-> IF kk = k THEN v ELSE d[kk]]

RECURSIVE CopyFields(_, _, _, _)
\* for field in fields[i..]: d[field] = src[field]
CopyFields(d, src, fields, i) ==
    IF i > Len(fields) THEN d
    ELSE CopyFields(DictSet(d, fields[i], src[fields[i]]), src, fields, i + 1)

\* position of key in the ordered dict tmp, 0 when absent (the keys of one
\* dict are the values of one column: of one type, or None)
Find(tmp, key) ==
    IF \E i \in 1..Len(tmp) : tmp[i].key = key
    THEN CHOOSE i \in 1..Len(tmp) : tmp[i].key = key
    ELSE 0

Contains(seq, e) == \E i \in 1..Len(seq) : seq[i] = e

Range(seq) == {seq[i] : i \in 1..Len(seq)}

Digits == <<"1", "2", "3", "4", "5", "6", "7", "8", "9">>

\* the aggregate the data source computed for its i-th grouped row: the
\* rows of one result differ in it
AggAt(i) == Num(Digits[i])

(***************************************************************************)
(* normalize_groups                                                        *)
(***************************************************************************)
\* the value stored under 'x' for the first-dimension value x
Display(x) ==
    IF Truthy(x) THEN x
    ELSE IF x = None THEN S("Null")
    ELSE S("Empty")

AppendAlways(keys, second) == Append(keys, second)

\* if second not in keys: keys.append(second)
AddKey(keys, second) ==
    IF Contains(keys, second) THEN keys ELSE Append(keys, second)

\* one pass of the loop `for result in results`
NormalizeRow(st, result, additional_fields, calc, grps) ==
    LET x_key == result[grps[1]]
        found == Find(st.tmp, x_key)
        tmp1 == IF found = 0
                THEN Append(st.tmp, [key |-> x_key, row |-> EmptyDict])
                ELSE st.tmp
        at == IF found = 0 THEN Len(tmp1) ELSE found
        row1 == CopyFields(tmp1[at].row, result, additional_fields, 1)
        single_group == Len(grps) = 1
        second == Str(result[grps[2]])
        row2 == IF single_group THEN CopyFields(row1, result, calc, 1)
                ELSE IF second \notin DOMAIN row1
                     THEN DictSet(row1, second, result[calc[1]])
                     ELSE row1
    IN  [tmp |-> [tmp1 EXCEPT ![at].row = row2],
         keys |-> IF single_group THEN calc ELSE AddKey(st.keys, second)]

RECURSIVE NormalizeLoop(_, _, _, _, _, _)
NormalizeLoop(st, rows, i, additional_fields, calc, grps) ==
    IF i > Len(rows) THEN st
    ELSE NormalizeLoop(NormalizeRow(st, rows[i], additional_fields, calc, grps),
                       rows, i + 1, additional_fields, calc, grps)

\* normalize_groups(results, additional_fields, calc, ..., groups)
normalize_groups(rows, additional_fields, calc, grps) ==
    IF rows = <<>> THEN [kind |-> "input", values |-> rows, keys |-> <<>>]
    ELSE LET st == NormalizeLoop([tmp |-> <<>>, keys |-> <<>>], rows, 1,
                                 additional_fields, calc, grps)
         IN  [kind |-> "pair",
              values |-> [i \in 1..Len(st.tmp) |->
                             DictSet(st.tmp[i].row, "x", Display(st.tmp[i].key))],
              keys |-> st.keys]

(***************************************************************************)
(* get_model, group_by, aggregate and get_results.                         *)
(* The data-source view `model` is the chain of calls made on it, each     *)
(* [op |-> the method, stage |-> what the call is for, args |-> its names].*)
(***************************************************************************)
\* the modules import_module finds
Importable == {"shop"}

\* get_model(model_name): <<the model>>, or <<>> (None) on ImportError
get_model(model_name) ==
    IF model_name[1] \in Importable THEN <<model_name>> ELSE <<>>

\* 'extracted_' + date_field
Extracted(date_field) ==
    CASE date_field = "created" -> "extracted_created"
      [] date_field = "paid" -> "extracted_paid"

QCall(op, stage, a) == [op |-> op, stage |-> stage, args |-> a]

\* the calls of group_by with the row cap applied before the ordering
GroupByCallsLimitFirst(chain, calc, grps, order, date_group, limit, additional_fields) ==
    chain
    \o (IF date_group # <<>>
        THEN <<QCall("annotate", "bucket", <<Extracted(date_group[1].field)>>)>>
        ELSE <<>>)
    \o <<QCall("values", "group", grps)>>
    \o <<QCall("annotate", "aggregate", calc)>>
    \o (IF limit # 0 THEN <<QCall("slice", "limit", <<>>)>> ELSE <<>>)
    \o (IF order # <<>> THEN <<QCall("order_by", "order", order)>> ELSE <<>>)
    \o <<QCall("values", "project", grps \o calc \o additional_fields)>>

\* the calls group_by makes on the view, in the order it makes them; grps
\* and order are the lists after the bucket column was inserted
GroupByCalls(chain, calc, grps, order, date_group, limit, additional_fields) ==
    chain
    \o (IF date_group # <<>>
        THEN <<QCall("annotate", "bucket", <<Extracted(date_group[1].field)>>)>>
        ELSE <<>>)
    \o <<QCall("values", "group", grps)>>
    \o <<QCall("annotate", "aggregate", calc)>>
    \o (IF order # <<>> THEN <<QCall("order_by", "order", order)>> ELSE <<>>)
    \o (IF limit # 0 THEN <<QCall("slice", "limit", <<>>)>> ELSE <<>>)
    \o <<QCall("values", "project", grps \o calc \o additional_fields)>>

\* group_by up to its row iteration: the view, and the lists `groups` and
\* `order` as the two insert(0, extracted) leave them
group_by(chain, additional_fields, calc, grps, order, date_group, limit) ==
    LET order1 == IF date_group # <<>> /\ order # <<>>
                  THEN <<Extracted(date_group[1].field)>> \o order ELSE order
        groups1 == IF date_group # <<>>
                   THEN <<Extracted(date_group[1].field)>> \o grps ELSE grps
    IN  [model |-> GroupByCalls(chain, calc, groups1, order1, date_group, limit,
                                additional_fields),
         groups |-> groups1,
         order |-> order1]

\* data.get(key, []): the request's own list when it has the key
GetList(opt) == IF opt = <<>> THEN <<>> ELSE opt[1]

\* the request after group_by: order.insert and groups.insert act on the
\* request's own lists (group_by rebinds `groups` only when it is empty, and
\* inserts into `order` only when it is non-empty)
RequestAfter(req, g) ==
    [req EXCEPT
        !.order = IF req.order # <<>> /\ req.order[1] # <<>>
                  THEN <<g.order>> ELSE @,
        !.fields = IF req.fields # <<>> /\ req.fields[1] # <<>>
                   THEN <<g.groups>> ELSE @]

\* get_results' filters on model.objects
Filtered(req) ==
    <<QCall("filter", "filter", <<"fields">>)>>
    \o (IF req.period THEN <<QCall("filter", "filter", <<"period">>)>> ELSE <<>>)

Grouping(req) == GetList(req.fields) # <<>> \/ req.date # <<>>

ShapedIgnoringRaw(rows, raw, grps, additional_fields, calc) ==
    IF rows = <<>> THEN [kind |-> "pair", values |-> rows, keys |-> <<>>]
    ELSE normalize_groups(rows, additional_fields, calc, grps)

\* results and results_keys before the key translation
Shaped(rows, raw, grps, additional_fields, calc) ==
    IF rows = <<>> THEN [kind |-> "pair", values |-> rows, keys |-> <<>>]
    ELSE IF raw THEN [kind |-> "pair", values |-> rows, keys |-> grps]
    ELSE normalize_groups(rows, additional_fields, calc, grps)

\* new_result = {**result}; new_result[keys[key]] = value for each key in keys
TranslateRow(result, keys) ==
    LET mapped == DOMAIN result \cap DOMAIN keys
    IN  [k \in DOMAIN result \cup {keys[m] : m \in mapped} |->
            IF \E m \in mapped : keys[m] = k
            THEN result[CHOOSE m \in mapped : keys[m] = k]
            ELSE result[k]]

\* the `if keys:` block: new_keys.append(keys[key]) raises KeyError for a
\* series key the map lacks
Translate(shaped, keys) ==
    IF \E i \in 1..Len(shaped.keys) : shaped.keys[i] \notin DOMAIN keys
    THEN [error |-> "KeyError", data |-> <<>>, keys |-> <<>>]
    ELSE [error |-> "",
          data |-> [i \in 1..Len(shaped.values) |->
                       TranslateRow(shaped.values[i], keys)],
          keys |-> [i \in 1..Len(shaped.keys) |-> keys[shaped.keys[i]]]]

\* get_results after the rows were read
Finish(rows, req, grps) ==
    LET shaped == Shaped(rows, req.raw, grps, req.additional_fields, req.calc)
    IN  IF req.keys # <<>>
        THEN Translate(shaped, req.keys[1])
        ELSE [error |-> "", data |-> shaped.values, keys |-> shaped.keys]

(***************************************************************************)
(* The request pipeline: a caller processes one request object with        *)
(* get_results, possibly several times.  get_results suspends only while   *)
(* the data source is read (group_by's `async for`, aggregate's await).    *)
(***************************************************************************)
LabelMaps ==
    { <<>>,
      <<[k \in {"sum"} |-> "Total"]>>,
      <<[k \in {"p", "q"} |-> IF k = "p" THEN "P" ELSE "Q"]>>,
      <<[k \in {"p", "status"} |-> IF k = "p" THEN "P" ELSE "Status"]>> }

Requests ==
    [model : {<<"shop", "Order">>, <<"ghost", "Thing">>},
     additional_fields : {<<>>},
     calc : {<<"sum">>},
     on_field : {"amount"},
     fields : {<<>>, <<(<<>>)>>, <<(<<"status">>)>>, <<(<<"status", "kind">>)>>},
     date : {<<>>, <<[field |-> "created", group_by |-> "day"]>>},
     order : {<<>>, <<(<<"status">>)>>},
     limit : {0, 1},
     raw : BOOLEAN,
     keys : LabelMaps,
     period : BOOLEAN]

Init ==
    /\ data \in Requests
    /\ args = data
    /\ model = <<>>
    /\ groups = <<>>
    /\ results = <<>>
    /\ response = <<>>
    /\ error = ""
    /\ pc = "idle"
    /\ calls = 0
    /\ reshaper = <<>>
    /\ builder = <<>>
    /\ resolver = <<>>

CanCall == pc \in {"idle", "returned", "raised"} /\ calls < MaxCalls

\* get_results with a model reference that does not resolve: get_model
\* returns None and `model.objects` raises AttributeError
CallUnresolved ==
    /\ CanCall
    /\ get_model(data.model) = <<>>
    /\ pc' = "raised"
    /\ error' = "AttributeError"
    /\ args' = data
    /\ calls' = calls + 1
    /\ model' = <<>> /\ groups' = <<>> /\ results' = <<>> /\ response' = <<>>
    /\ UNCHANGED <<data, reshaper, builder, resolver>>

\* get_results of a grouped request, up to group_by's row iteration
CallGrouped ==
    /\ CanCall
    /\ get_model(data.model) # <<>>
    /\ Grouping(data)
    /\ LET g == group_by(Filtered(data), data.additional_fields, data.calc,
                         GetList(data.fields), GetList(data.order), data.date,
                         data.limit)
       IN  /\ model' = g.model
           /\ groups' = g.groups
           /\ data' = RequestAfter(data, g)
    /\ args' = data
    /\ calls' = calls + 1
    /\ pc' = "iterating"
    /\ error' = "" /\ results' = <<>> /\ response' = <<>>
    /\ UNCHANGED <<reshaper, builder, resolver>>

\* the grouped rows the view can give: one value per dimension and per
\* formula; at most `limit` rows when a row cap was set
Fetchable ==
    LET cap == IF data.limit # 0 /\ data.limit < MaxFetched
               THEN data.limit ELSE MaxFetched
        varying == {groups[i] : i \in 1..Len(groups) \cap 1..2}
        RowsOf(n) ==
            {[i \in 1..n |->
                [c \in Range(groups) \cup Range(data.calc) |->
                    IF c \in varying THEN S(v[i][c])
                    ELSE IF c \in Range(groups) THEN S("p")
                    ELSE AggAt(i)]] :
             v \in {w \in [1..n -> [varying -> {"p", "q"}]] :
                       \A i, j \in 1..n : i # j => w[i] # w[j]}}
    IN  UNION {RowsOf(n) : n \in 0..cap}

\* the rows arrive; get_results reshapes, translates and returns
Fetch ==
    /\ pc = "iterating"
    /\ \E rows \in Fetchable :
        LET f == Finish(rows, data, groups)
        IN  /\ results' = rows
            /\ error' = f.error
            /\ pc' = IF f.error = "" THEN "returned" ELSE "raised"
            /\ response' = IF f.error = ""
                           THEN <<[kind |-> "grouped", data |-> f.data, keys |-> f.keys]>>
                           ELSE <<>>
    /\ UNCHANGED <<data, args, model, groups, calls, reshaper, builder, resolver>>

\* get_results of a request without grouping, up to aggregate's await
CallAggregate ==
    /\ CanCall
    /\ get_model(data.model) # <<>>
    /\ ~Grouping(data)
    /\ model' = Filtered(data)
                 \o <<QCall("values", "project", <<data.on_field>>),
                      QCall("aaggregate", "aggregate", <<data.calc[1]>>)>>
    /\ args' = data
    /\ calls' = calls + 1
    /\ pc' = "aggregating"
    /\ error' = "" /\ results' = <<>> /\ response' = <<>> /\ groups' = <<>>
    /\ UNCHANGED <<data, reshaper, builder, resolver>>

\* the total arrives: {'total': data['aggregated_total']}
Total ==
    /\ pc = "aggregating"
    /\ \E t \in {Num("5"), None} :
           response' = <<[kind |-> "total", total |-> t]>>
    /\ pc' = "returned"
    /\ UNCHANGED <<data, args, model, groups, results, error, calls,
                   reshaper, builder, resolver>>

Next ==
    \/ CallUnresolved
    \/ CallGrouped
    \/ Fetch
    \/ CallAggregate
    \/ Total

Spec == Init /\ [][Next]_vars

(***************************************************************************)
(* Claims about the request pipeline (checked under Spec).                 *)
(***************************************************************************)
\* the call in progress or just ended resolved its model and grouped
GroupedCall ==
    /\ calls > 0
    /\ get_model(args.model) # <<>>
    /\ Grouping(args)

Ended == pc \in {"returned", "raised"}

\* the bucket column, if any, followed by the request's group fields as the
\* request held them when the call started
EffectiveDims ==
    (IF args.date # <<>> THEN <<Extracted(args.date[1].field)>> ELSE <<>>)
    \o GetList(args.fields)

Label(keys, k) == IF k \in DOMAIN keys THEN keys[k] ELSE k

\* C3: with a label map, the returned keys are the untranslated keys with
\* every mapped key replaced by its label and every other key unchanged, no
\* error is raised for a key the map lacks, and each row's mapped field names
\* are rewritten to their labels.
C3_TranslationPassesUnmappedKeys ==
    (GroupedCall /\ Ended /\ args.keys # <<>>) =>
        LET keys == args.keys[1]
            u == Shaped(results, args.raw, groups, args.additional_fields, args.calc)
        IN  /\ error = ""
            /\ pc = "returned"
            /\ response[1].keys = [i \in 1..Len(u.keys) |-> Label(keys, u.keys[i])]
            /\ Len(response[1].data) = Len(u.values)
            /\ \A i \in 1..Len(u.values) :
                   /\ DOMAIN response[1].data[i] =
                          {Label(keys, k) : k \in DOMAIN u.values[i]}
                   /\ \A k \in DOMAIN u.values[i] :
                          response[1].data[i][Label(keys, k)] = u.values[i][k]

\* C6 as stated: a grouped raw request without label map returns the rows
\* unchanged with keys equal to the effective dimension list, for every
\* grouped result including an empty one.
C6_RawKeysAreDimensionsAlways ==
    (GroupedCall /\ pc = "returned" /\ args.raw /\ args.keys = <<>>) =>
        /\ response[1].data = results
        /\ response[1].keys = EffectiveDims

\* C6 amended: a grouped raw request without label map returns the rows
\* unchanged; keys is the effective dimension list (the bucket column, if
\* any, followed by the group fields the request held when the call
\* started) when the grouped result is non-empty, and the empty list when
\* it is empty.
C6_RawKeysAreDimensionsUnlessEmpty ==
    (GroupedCall /\ pc = "returned" /\ args.raw /\ args.keys = <<>>) =>
        /\ response[1].kind = "grouped"
        /\ response[1].data = results
        /\ response[1].keys = IF results = <<>> THEN <<>> ELSE EffectiveDims

\* C6's case: a raw request with a date bucket and a group field returned
\* two grouped rows.
C6_Witness ==
    /\ GroupedCall /\ pc = "returned" /\ args.raw /\ args.keys = <<>>
    /\ args.date # <<>> /\ GetList(args.fields) # <<>>
    /\ Len(results) = 2
    /\ response[1].keys = EffectiveDims

\* C7: processing a request whose model does not resolve returns an absent
\* result and raises no error.
C7_UnresolvedModelReturnsAbsent ==
    (calls > 0 /\ get_model(args.model) = <<>>) =>
        /\ pc = "returned"
        /\ error = ""
        /\ response = <<>>

StageRank(stage) ==
    CASE stage = "filter" -> 1
      [] stage = "bucket" -> 2
      [] stage = "group" -> 3
      [] stage = "aggregate" -> 4
      [] stage = "order" -> 5
      [] stage = "limit" -> 6
      [] stage = "project" -> 7

StageOp(stage) ==
    CASE stage = "filter" -> "filter"
      [] stage \in {"bucket", "aggregate"} -> "annotate"
      [] stage \in {"group", "project"} -> "values"
      [] stage = "order" -> "order_by"
      [] stage = "limit" -> "slice"

Has(stage) == \E i \in 1..Len(model) : model[i].stage = stage

\* C9: in a grouped request the calls on the data source come in the order
\* filter, bucket annotation (iff a date bucket is requested), grouping,
\* aggregation, ordering (iff requested), limiting (iff requested),
\* projection; the ordering is applied before the row cap.
C9_PlannerOrder ==
    (GroupedCall /\ pc \in {"iterating", "returned", "raised"}) =>
        /\ \A i, j \in 1..Len(model) :
               i < j => /\ StageRank(model[i].stage) <= StageRank(model[j].stage)
                        /\ model[i].stage = model[j].stage => model[i].stage = "filter"
        /\ \A i \in 1..Len(model) : model[i].op = StageOp(model[i].stage)
        /\ \A i, j \in 1..Len(model) :
               (model[i].op = "order_by" /\ model[j].op = "slice") => i < j
        /\ Has("filter") /\ Has("group") /\ Has("aggregate") /\ Has("project")
        /\ Has("bucket") <=> args.date # <<>>
        /\ Has("order") <=> GetList(args.order) # <<>>
        /\ Has("limit") <=> args.limit # 0

\* C9's case: a request with a date bucket, an ordering and a row cap ran
\* to its end.
C9_Witness ==
    /\ GroupedCall /\ pc = "returned"
    /\ Has("bucket") /\ Has("order") /\ Has("limit")
    /\ results # <<>>

\* C10: processing a request with a date bucket leaves the request's group
\* field list and order list as they were, so that every processing yields a
\* dimension list holding the bucket column exactly once, in first position.
C10_RequestUnchanged ==
    (GroupedCall /\ pc = "returned" /\ args.date # <<>>) =>
        /\ data.fields = args.fields
        /\ data.order = args.order
        /\ groups[1] = Extracted(args.date[1].field)
        /\ Cardinality({i \in 1..Len(groups) :
                           groups[i] = Extracted(args.date[1].field)}) = 1

(***************************************************************************)
(* The metric expression: aggregate and group_by concatenate the tokens of *)
(* a list field into 'models.F("a")+models.F("b")*...' and eval() it.      *)
(* Python parses that text with its operator precedence, and each operator *)
(* it applies to an F object builds a combined expression of its operands. *)
(* An expression is <<"F", column>> or <<operator, left, right>>.          *)
(***************************************************************************)
Operators == {"*", "+", "-", "/", "^"}

FlatPrec(op) == 1

\* how tightly Python binds the binary operator op
PyPrec(op) ==
    CASE op \in {"*", "/"} -> 3
      [] op \in {"+", "-"} -> 2
      [] op = "^" -> 1

\* the operator positions of a token list
OpsAt(tokens) == {i \in 1..Len(tokens) : tokens[i] \in Operators}

\* the operator Python applies last: the rightmost of the loosest ones
\* (binary operators of one precedence associate to the left)
LastApplied(tokens) ==
    CHOOSE i \in OpsAt(tokens) :
        \A j \in OpsAt(tokens) :
            \/ PyPrec(tokens[j]) > PyPrec(tokens[i])
            \/ (PyPrec(tokens[j]) = PyPrec(tokens[i]) /\ j <= i)

RECURSIVE PyParse(_)
\* eval() of the concatenated text, as the tree of the operations applied
PyParse(tokens) ==
    IF Len(tokens) = 1 THEN <<"F", tokens[1]>>
    ELSE LET i == LastApplied(tokens)
         IN  <<tokens[i], PyParse(SubSeq(tokens, 1, i - 1)),
               PyParse(SubSeq(tokens, i + 1, Len(tokens)))>>

\* the expression-building block of aggregate and of group_by; F objects
\* combine under + - * /, and raise NotImplementedError under ^
BuildAggregation(on_field) ==
    IF ~on_field.list
    THEN [error |-> "", aggregation |-> <<"name", on_field.tokens[1]>>]
    ELSE IF \E i \in 1..Len(on_field.tokens) : on_field.tokens[i] = "^"
    THEN [error |-> "NotImplementedError", aggregation |-> <<>>]
    ELSE [error |-> "", aggregation |-> PyParse(on_field.tokens)]

\* Numbers of the data source: fractions <<numerator, denominator>> with a
\* positive denominator.
Rat(n) == <<n, 1>>
RatEq(p, q) == p[1] * q[2] = q[1] * p[2]
Sign(n) == IF n < 0 THEN -1 ELSE 1
Apply(op, p, q) ==
    CASE op = "+" -> <<p[1] * q[2] + q[1] * p[2], p[2] * q[2]>>
      [] op = "-" -> <<p[1] * q[2] - q[1] * p[2], p[2] * q[2]>>
      [] op = "*" -> <<p[1] * q[1], p[2] * q[2]>>
      [] op = "/" -> <<p[1] * q[2] * Sign(q[1]), p[2] * q[1] * Sign(q[1])>>

RECURSIVE Eval(_, _)
\* the value the data source computes for an expression on a row (a
\* combined expression is sent fully parenthesised)
Eval(e, r) ==
    IF Len(e) = 2 THEN Rat(r[e[2]])
    ELSE Apply(e[1], Eval(e[2], r), Eval(e[3], r))

Cols == <<"a", "b", "c", "d", "e">>

\* the list fields with k operators: columns and operators alternating
ListFields(k) ==
    {[list |-> TRUE,
      tokens |-> [i \in 1..(2 * k + 1) |->
                     IF i % 2 = 1 THEN Cols[(i + 1) \div 2] ELSE ops[i \div 2]]] :
     ops \in [1..k -> Operators]}

MetricFields ==
    {[list |-> FALSE, tokens |-> <<"a">>]}
    \cup UNION {ListFields(k) : k \in 0..MaxOperators}

MetricRows ==
    {[c \in Range(Cols) |->
        CASE c = "a" -> a [] c = "b" -> b [] c = "c" -> cc [] OTHER -> 4] :
     a \in {10, 2}, b \in {3, 5}, cc \in {1, 2}}

BuilderInit ==
    /\ IdlePipeline
    /\ reshaper = <<>>
    /\ resolver = <<>>
    /\ \E f \in MetricFields, r \in MetricRows :
           builder = [on_field |-> f, row |-> r, caller |-> "", built |-> <<>>,
                      value |-> <<>>]

\* aggregate builds the expression of the metric field
BuildInAggregate ==
    /\ builder.built = <<>>
    /\ builder' = [builder EXCEPT !.caller = "aggregate",
                                  !.built = <<BuildAggregation(builder.on_field)>>]
    /\ UNCHANGED <<data, args, model, groups, results, response, error, pc,
                   calls, reshaper, resolver>>

\* group_by builds the expression of the metric field
BuildInGroupBy ==
    /\ builder.built = <<>>
    /\ builder' = [builder EXCEPT !.caller = "group_by",
                                  !.built = <<BuildAggregation(builder.on_field)>>]
    /\ UNCHANGED <<data, args, model, groups, results, response, error, pc,
                   calls, reshaper, resolver>>

\* the data source computes a built list expression on the row
Evaluate ==
    /\ builder.built # <<>>
    /\ builder.value = <<>>
    /\ builder.on_field.list
    /\ builder.built[1].error = ""
    /\ builder' = [builder EXCEPT
                      !.value = <<Eval(builder.built[1].aggregation, builder.row)>>]
    /\ UNCHANGED <<data, args, model, groups, results, response, error, pc,
                   calls, reshaper, resolver>>

BuilderNext == BuildInAggregate \/ BuildInGroupBy \/ Evaluate

SpecExpr == BuilderInit /\ [][BuilderNext]_vars

(***************************************************************************)
(* Claims about the expression builder (checked under SpecExpr).           *)
(***************************************************************************)
BuiltList == builder.built # <<>> /\ builder.on_field.list

Tokens == builder.on_field.tokens

RECURSIVE LeftToRight(_, _)
\* the first n tokens taken strictly left to right: ((a op1 b) op2 c) ...
LeftToRight(tokens, n) ==
    IF n = 1 THEN <<"F", tokens[1]>>
    ELSE <<tokens[n - 1], LeftToRight(tokens, n - 2), <<"F", tokens[n]>>>>

Binds(op) == IF op \in {"*", "/"} THEN 2 ELSE 1

DigitChars == {"0", "1", "2", "3", "4", "5", "6", "7", "8", "9"}
Units == {"d", "m", "y"}

\* DELTA_REGEX.search(s): <<[delta_int, delta_time]>> on a match, <<>> on
\* none; '$' also matches before one trailing newline
DeltaMatch(s) ==
    LET body == IF Len(s) > 0 /\ s[Len(s)] = "\n" THEN SubSeq(s, 1, Len(s) - 1)
                ELSE s
        n == Len(body)
        from == IF n > 0 /\ body[1] = "-" THEN 2 ELSE 1
    IN  IF /\ n >= 1
           /\ body[n] \in Units
           /\ \A i \in from..(n - 1) : body[i] \in DigitChars
        THEN <<[delta_int |-> SubSeq(body, 1, n - 1), delta_time |-> body[n]]>>
        ELSE <<>>

\* the moment the request is processed
Today == <<2024, 3, 15>>

DigitNames == <<"0", "1", "2", "3", "4", "5", "6", "7", "8", "9">>
DigitVal(c) == CHOOSE v \in 0..9 : DigitNames[v + 1] = c

RECURSIVE Magnitude(_, _)
Magnitude(chars, n) ==
    IF n = 0 THEN 0 ELSE 10 * Magnitude(chars, n - 1) + DigitVal(chars[n])

\* the count of a delta: its digits, 1 when there are none, negated after '-'
DeltaCount(delta_int) ==
    LET neg == Len(delta_int) > 0 /\ delta_int[1] = "-"
        digits == IF neg THEN SubSeq(delta_int, 2, Len(delta_int)) ELSE delta_int
        mag == IF digits = <<>> THEN 1 ELSE Magnitude(digits, Len(digits))
    IN  IF neg THEN -mag ELSE mag

IsLeap(y) == (y % 4 = 0 /\ y % 100 # 0) \/ y % 400 = 0
DaysIn(y, m) ==
    IF m = 2 THEN (IF IsLeap(y) THEN 29 ELSE 28)
    ELSE IF m \in {4, 6, 9, 11} THEN 30 ELSE 31

NextDay(t) ==
    IF t[3] < DaysIn(t[1], t[2]) THEN <<t[1], t[2], t[3] + 1>>
    ELSE IF t[2] < 12 THEN <<t[1], t[2] + 1, 1>> ELSE <<t[1] + 1, 1, 1>>
PrevDay(t) ==
    IF t[3] > 1 THEN <<t[1], t[2], t[3] - 1>>
    ELSE IF t[2] > 1 THEN <<t[1], t[2] - 1, DaysIn(t[1], t[2] - 1)>>
    ELSE <<t[1] - 1, 12, 31>>

RECURSIVE AddDays(_, _)
AddDays(t, k) ==
    IF k = 0 THEN t
    ELSE IF k > 0 THEN AddDays(NextDay(t), k - 1) ELSE AddDays(PrevDay(t), k + 1)

StartOf(t) == <<t[1], t[2], t[3], "00:00:00">>
EndOf(t) == <<t[1], t[2], t[3], "23:59:59.999999">>

\* Dates.day_delta: the boundaries of the day `delta` days from today
day_delta(delta) ==
    LET t == AddDays(Today, delta) IN <<StartOf(t), EndOf(t)>>

\* Dates.month_delta: the first and last instant of the month `delta` months
\* from the current month
month_delta(delta) ==
    LET months == Today[1] * 12 + (Today[2] - 1) + delta
        y == months \div 12
        m == (months % 12) + 1
    IN  <<StartOf(<<y, m, 1>>), EndOf(<<y, m, DaysIn(y, m)>>)>>

\* Dates.year_delta: the first and last instant of the year `delta` years
\* from the current year
year_delta(delta) ==
    <<StartOf(<<Today[1] + delta, 1, 1>>), EndOf(<<Today[1] + delta, 12, 31>>)>>

\* get_dates(match, timezone)
get_dates(match) ==
    CASE match.delta_time = "d" -> day_delta(DeltaCount(match.delta_int))
      [] match.delta_time = "m" -> month_delta(DeltaCount(match.delta_int))
      [] match.delta_time = "y" -> year_delta(DeltaCount(match.delta_int))

\* bool() of an optional string or date: absent and '' are falsy
Given(opt) == opt # <<>> /\ opt[1] # <<>>

\* f'{field}__gte', f'{field}__lte'
FilterKey(field, suffix) == <<IF field = <<>> THEN "None" ELSE field[1], suffix>>

get_period_literal_wins(period) ==
    LET field == period.field
        sm == IF Given(period.start_delta) THEN DeltaMatch(period.start_delta[1])
              ELSE <<>>
        em == IF Given(period.end_delta) THEN DeltaMatch(period.end_delta[1])
              ELSE <<>>
        start_date == IF Given(period.start_date) THEN period.start_date
                      ELSE IF sm # <<>> THEN <<get_dates(sm[1])[1]>>
                      ELSE period.start_date
        end_date == IF Given(period.end_date) THEN period.end_date
                    ELSE IF em # <<>> THEN <<get_dates(em[1])[2]>>
                    ELSE period.end_date
        f1 == IF Given(start_date)
              THEN DictSet(EmptyDict, FilterKey(field, "gte"), start_date[1])
              ELSE EmptyDict
        f2 == IF Given(end_date)
              THEN DictSet(f1, FilterKey(field, "lte"), end_date[1])
              ELSE f1
    IN  [date_filter |-> f2, start_date |-> start_date, end_date |-> end_date]

\* get_period(period, timezone) for a period that is given (not empty)
get_period(period) ==
    LET field == period.field
    IN  IF field = <<>> /\ ~(Given(period.start_date) \/ Given(period.end_date)
                            \/ Given(period.start_delta) \/ Given(period.end_delta))
        THEN [date_filter |-> EmptyDict, start_date |-> <<>>, end_date |-> <<>>]
        ELSE
        LET f1 == IF Given(period.start_date)
                  THEN DictSet(EmptyDict, FilterKey(field, "gte"), period.start_date[1])
                  ELSE EmptyDict
            f2 == IF Given(period.end_date)
                  THEN DictSet(f1, FilterKey(field, "lte"), period.end_date[1])
                  ELSE f1
            sm == IF Given(period.start_delta) THEN DeltaMatch(period.start_delta[1])
                  ELSE <<>>
            start_date == IF sm # <<>> THEN <<get_dates(sm[1])[1]>>
                          ELSE period.start_date
            f3 == IF sm # <<>>
                  THEN DictSet(f2, FilterKey(field, "gte"), start_date[1]) ELSE f2
            em == IF Given(period.end_delta) THEN DeltaMatch(period.end_delta[1])
                  ELSE <<>>
            end_date == IF em # <<>> THEN <<get_dates(em[1])[2]>>
                        ELSE period.end_date
            f4 == IF em # <<>>
                  THEN DictSet(f3, FilterKey(field, "lte"), end_date[1]) ELSE f3
        IN  [date_filter |-> f4, start_date |-> start_date, end_date |-> end_date]

\* the delta strings tried: '-7d', '2m', '-1y', 'd', '-d', '-1m', 'xx', '7',
\* '7dd', 'd7', '+1d', '1d' with a newline, and ''
DeltaStrings ==
    { <<"-", "7", "d">>, <<"2", "m">>, <<"-", "1", "y">>, <<"d">>, <<"-", "d">>,
      <<"-", "1", "m">>, <<"x", "x">>, <<"7">>, <<"7", "d", "d">>, <<"d", "7">>,
      <<"+", "1", "d">>, <<"1", "d", "\n">>, <<>> }

Optional(set) == {<<>>} \cup {<<e>> : e \in set}

Periods ==
    [field : Optional({"created"}),
     start_date : Optional({<<2020, 1, 1, "08:30:00">>}),
     end_date : Optional({<<2020, 12, 31, "08:30:00">>}),
     start_delta : Optional(DeltaStrings),
     end_delta : Optional(DeltaStrings)]

ResolverInit ==
    /\ IdlePipeline
    /\ reshaper = <<>>
    /\ builder = <<>>
    /\ \E period \in Periods : resolver = [period |-> period, out |-> <<>>]

\* get_results calls get_period for the request's period filter
ResolvePeriod ==
    /\ resolver.out = <<>>
    /\ resolver' = [resolver EXCEPT !.out = <<get_period(resolver.period)>>]
    /\ UNCHANGED <<data, args, model, groups, results, response, error, pc,
                   calls, reshaper, builder>>

ResolverNext == ResolvePeriod

SpecPeriod == ResolverInit /\ [][ResolverNext]_vars

(***************************************************************************)
(* Claims about the period filter (checked under SpecPeriod).              *)
(***************************************************************************)
\* the strings of the delta grammar: an optional '-', digits, one unit (the
\* pattern's '$' lets one newline follow)
WellFormed(s) ==
    \E sign \in {<<>>, <<"-">>}, unit \in Units, nl \in {<<>>, <<"\n">>} :
        \E k \in 0..Len(s) :
            /\ Len(s) = Len(sign) + k + 1 + Len(nl)
            /\ s = sign \o SubSeq(s, Len(sign) + 1, Len(sign) + k) \o <<unit>> \o nl
            /\ \A i \in (Len(sign) + 1)..(Len(sign) + k) : s[i] \in DigitChars

\* what the claim says of one bound: the delta-resolved date for a
\* well-formed delta, else the literal date when present, else unset
BoundAsClaimed(delta, literal, suffix, pick) ==
    LET f == resolver.out[1].date_filter
        key == FilterKey(resolver.period.field, suffix)
    IN  IF Given(delta) /\ WellFormed(delta[1])
        THEN key \in DOMAIN f /\ f[key] = get_dates(DeltaMatch(delta[1])[1])[pick]
        ELSE IF Given(literal)
        THEN key \in DOMAIN f /\ f[key] = literal[1]
        ELSE key \notin DOMAIN f

\* C4: for a period filter with a field, each bound is set on its own: a
\* well-formed delta gives the delta-resolved date even when a literal date
\* is given; without delta the literal date is the bound; a malformed delta
\* is ignored without error and adds no bound.
C4_DeltaOverridesLiteral ==
    (resolver.out # <<>> /\ resolver.period.field # <<>>) =>
        /\ BoundAsClaimed(resolver.period.start_delta, resolver.period.start_date,
                          "gte", 1)
        /\ BoundAsClaimed(resolver.period.end_delta, resolver.period.end_date,
                          "lte", 2)
        /\ DOMAIN resolver.out[1].date_filter \subseteq
               {FilterKey(resolver.period.field, "gte"),
                FilterKey(resolver.period.field, "lte")}

\* C4's case: start delta '-1m' over a literal start date, and a malformed
\* end delta 'xx' without literal end date: the start bound is the first
\* instant of February 2024 and the end bound is unset.
C4_Witness ==
    /\ resolver.out # <<>>
    /\ resolver.period.field = <<"created">>
    /\ resolver.period.start_delta = << <<"-", "1", "m">> >>
    /\ resolver.period.start_date # <<>>
    /\ resolver.period.end_delta = << <<"x", "x">> >>
    /\ resolver.period.end_date = <<>>
    /\ resolver.out[1].date_filter =
           DictSet(EmptyDict, <<"created", "gte">>, <<2024, 2, 1, "00:00:00">>)

(***************************************************************************)
(* The reshaper on its own: normalize_groups applied to grouped rows.      *)
(***************************************************************************)
\* the values a first-dimension column of each type holds
XVals(type) ==
    CASE type = "str" -> {S("A"), S("B"), S(""), None}
      [] type = "int" -> {<<"int", "0">>, <<"int", "7">>, None}
      [] type = "bool" -> {<<"bool", "False">>, <<"bool", "True">>, None}

\* the values a second-dimension column of each type holds
YVals(type) ==
    CASE type = "str" -> {S("p"), S("q"), S("f"), S("x")}
      [] type = "int" -> {<<"int", "1">>, <<"int", "2">>}
      [] type = "bool" -> {<<"bool", "True">>, None}

\* the grouped row the final projection of group_by gives
MkRow(grps, additional_fields, calc, xv, yv, i) ==
    [c \in Range(grps) \cup Range(calc) \cup Range(additional_fields) |->
        IF c = grps[1] THEN xv
        ELSE IF Len(grps) > 1 /\ c = grps[2] THEN yv
        ELSE IF c = calc[1] THEN AggAt(i)
        ELSE IF c \in Range(calc) THEN Num("1")
        ELSE Num("0")]

ReshaperInit ==
    \E grps \in {<<"g1">>, <<"g1", "g2">>},
       additional_fields \in {<<>>, <<"f">>},
       calc \in {<<"sum">>, <<"count", "sum">>},
       xt \in {"str", "int", "bool"}, yt \in {"str", "int", "bool"},
       n \in 0..MaxRows :
        \E xs \in [1..n -> XVals(xt)], ys \in [1..n -> YVals(yt)] :
            reshaper = [results |-> [i \in 1..n |->
                            MkRow(grps, additional_fields, calc, xs[i], ys[i], i)],
                        additional_fields |-> additional_fields,
                        calc |-> calc,
                        groups |-> grps,
                        out |-> <<>>]

NormInit ==
    /\ IdlePipeline
    /\ builder = <<>>
    /\ resolver = <<>>
    /\ ReshaperInit

\* a call of normalize_groups
Reshape ==
    /\ reshaper.out = <<>>
    /\ reshaper' = [reshaper EXCEPT !.out =
            <<normalize_groups(reshaper.results, reshaper.additional_fields,
                               reshaper.calc, reshaper.groups)>>]
    /\ UNCHANGED <<data, args, model, groups, results, response, error, pc,
                   calls, builder, resolver>>

NormNext == Reshape

SpecNorm == NormInit /\ [][NormNext]_vars

(***************************************************************************)
(* Claims about the reshaper (checked under SpecNorm).                     *)
(***************************************************************************)
ReshapedTwoDims ==
    /\ reshaper.out # <<>>
    /\ reshaper.results # <<>>
    /\ Len(reshaper.groups) = 2

\* the first- and second-dimension value of the i-th grouped row
XOf(i) == reshaper.results[i][reshaper.groups[1]]
YOf(i) == reshaper.results[i][reshaper.groups[2]]

\* the rows in which a first-dimension value, or the text of a
\* second-dimension value, is seen for the first time
FirstX == {i \in 1..Len(reshaper.results) : \A j \in 1..(i - 1) : XOf(j) # XOf(i)}
FirstY == {i \in 1..Len(reshaper.results) :
              \A j \in 1..(i - 1) : Str(YOf(j)) # Str(YOf(i))}

\* how many members of the set of rows `firsts` come before row i, plus one
Rank(firsts, i) == Cardinality({j \in firsts : j < i}) + 1

\* the output row built for the first-dimension value of the i-th grouped row
OutRowOf(i) ==
    LET f == CHOOSE j \in FirstX : XOf(j) = XOf(i)
    IN  reshaper.out[1].values[Rank(FirstX, f)]

\* C1: with two dimensions and a non-empty input, keys lists the distinct
\* stringified second-dimension values in first-seen order without
\* duplicates, and data holds one row per distinct first-dimension value, in
\* first-seen order.
C1_KeysAndRowsFirstSeen ==
    ReshapedTwoDims =>
        LET o == reshaper.out[1]
        IN  /\ o.kind = "pair"
            /\ Len(o.keys) = Cardinality(FirstY)
            /\ \A i \in FirstY : o.keys[Rank(FirstY, i)] = Str(YOf(i))
            /\ Len(o.values) = Cardinality(FirstX)
            /\ \A i \in FirstX :
                   IF Truthy(XOf(i))
                   THEN o.values[Rank(FirstX, i)]["x"] = XOf(i)
                   ELSE o.values[Rank(FirstX, i)]["x"] \in {S("Null"), S("Empty")}

\* C1's case: two rows that share the second-dimension value and differ in
\* the first, reshaped into two output rows and one key.
C1_Witness ==
    /\ ReshapedTwoDims
    /\ Len(reshaper.results) = 2
    /\ YOf(1) = YOf(2) /\ XOf(1) # XOf(2)
    /\ Len(reshaper.out[1].values) = 2
    /\ reshaper.out[1].keys = <<Str(YOf(1))>>

\* C2: with two dimensions, for every grouped row (x, y) the output row of x
\* has a column str(y) holding the first aggregate of a grouped row with that
\* (x, y), whatever the passthrough field names and second-dimension values.
C2_SeriesColumnHoldsAggregate ==
    ReshapedTwoDims =>
        \A i \in 1..Len(reshaper.results) :
            /\ Str(YOf(i)) \in DOMAIN OutRowOf(i)
            /\ \E j \in 1..Len(reshaper.results) :
                   /\ XOf(j) = XOf(i) /\ YOf(j) = YOf(i)
                   /\ OutRowOf(i)[Str(YOf(i))] =
                          reshaper.results[j][reshaper.calc[1]]

\* C8: the value under 'x' is 'Empty' for the empty string, 'Null' for None
\* and the first-dimension value itself otherwise (zero and False included).
C8_DisplayOnlyMarkersRenamed ==
    (reshaper.out # <<>> /\ reshaper.results # <<>>) =>
        \A i \in FirstX :
            reshaper.out[1].values[Rank(FirstX, i)]["x"] =
                (IF XOf(i) = S("") THEN S("Empty")
                 ELSE IF XOf(i) = None THEN S("Null")
                 ELSE XOf(i))

====
